---- MODULE Spec2Model ----
(***************************************************************************)
(* Model of the two utility scripts of poir-viewer:                        *)
(*   src/generate_project_summary.py  (Project Summarizer)                 *)
(*   src/.dev/create_app_icons.py     (Icon Exporter)                      *)
(*                                                                         *)
(* Text is modelled as sequences of one-character strings, so that the     *)
(* glob matching, the pattern rewriting and the sorting of names are       *)
(* computed character by character as the Python code computes them.       *)
(* Paths are modelled as on a POSIX system (os.sep = "/", os.path.normcase *)
(* is the identity).                                                       *)
(***************************************************************************)
EXTENDS Integers, Sequences, FiniteSets, TLC

VARIABLES
    \* ---- Project Summarizer -------------------------------------------
    project_name,                \* os.path.basename(project_dir)
    tree,                        \* the project directory on disk
    ignore_files,                \* the lines of the three ignore files
    gitignore_patterns,
    summaryignore_patterns,
    structureignore_patterns,
    additional_ignore_patterns,
    summary,                     \* structure section, one element per line
    file_contents_section,       \* contents section, one element per entry
    stack,                       \* active traverse_directory calls
    pc,                          \* position in generate_project_summary
    outputs,                     \* documents written, one per finished run
    \* ---- is_ignored called on its own ---------------------------------
    m_path, m_check_structure, m_result,
    \* ---- the "**" rewrite of is_ignored called on its own -------------
    pattern, rewritten,
    \* ---- Icon Exporter --------------------------------------------------
    icon

vars == << project_name, tree, ignore_files, gitignore_patterns,
           summaryignore_patterns, structureignore_patterns,
           additional_ignore_patterns, summary, file_contents_section,
           stack, pc, outputs, m_path, m_check_structure, m_result,
           pattern, rewritten, icon >>

summarizer_vars == << project_name, tree, ignore_files, summary,
                      file_contents_section, stack, pc, outputs >>
pattern_vars == << gitignore_patterns, summaryignore_patterns,
                   structureignore_patterns, additional_ignore_patterns >>
match_vars == << m_path, m_check_structure, m_result >>
rewrite_vars == << pattern, rewritten >>

-----------------------------------------------------------------------------
(* Characters and strings *)

Ascii == <<" ", "!", "\"", "#", "$", "%", "&", "'", "(", ")", "*", "+", ",", "-", ".", "/", "0", "1", "2", "3", "4", "5", "6", "7", "8", "9", ":", ";", "<", "=", ">", "?", "@", "A", "B", "C", "D", "E", "F", "G", "H", "I", "J", "K", "L", "M", "N", "O", "P", "Q", "R", "S", "T", "U", "V", "W", "X", "Y", "Z", "[", "\\", "]", "^", "_", "grave", "a", "b", "c", "d", "e", "f", "g", "h", "i", "j", "k", "l", "m", "n", "o", "p", "q", "r", "s", "t", "u", "v", "w", "x", "y", "z", "{", "|", "}", "~">>

\* ord(c) - 31 for a printable ASCII character: the order sorted() uses.
\* (Position 65 stands for the grave accent, which no modelled text holds.)
Ord(c) == CHOOSE i \in 1..Len(Ascii) : Ascii[i] = c

Range(s) == { s[i] : i \in 1..Len(s) }

StartsWith(s, prefix) ==
    /\ Len(prefix) <= Len(s)
    /\ SubSeq(s, 1, Len(prefix)) = prefix

\* Python's (sub in s)
Contains(s, sub) ==
    \E i \in 1..(Len(s) - Len(sub) + 1) : SubSeq(s, i, i + Len(sub) - 1) = sub

\* Python's s.replace(old, new): every occurrence found by one scan from the
\* left, each match consumed before the scan goes on (old is never empty here).
RECURSIVE Replace(_, _, _)
Replace(s, old, new) ==
    IF ~Contains(s, old) THEN s
    ELSE IF SubSeq(s, 1, Len(old)) = old
         THEN new \o Replace(SubSeq(s, Len(old) + 1, Len(s)), old, new)
         ELSE <<s[1]>> \o Replace(Tail(s), old, new)

\* s.replace(old, new, 1): the first occurrence only.
RECURSIVE ReplaceFirst(_, _, _)
ReplaceFirst(s, old, new) ==
    IF Len(s) < Len(old) THEN s
    ELSE IF SubSeq(s, 1, Len(old)) = old
         THEN new \o SubSeq(s, Len(old) + 1, Len(s))
         ELSE <<s[1]>> \o ReplaceFirst(Tail(s), old, new)

\* str.strip() for the whitespace the modelled lines can hold
RECURSIVE LStrip(_)
LStrip(s) == IF s # <<>> /\ s[1] = " " THEN LStrip(Tail(s)) ELSE s
RECURSIVE RStrip(_)
RStrip(s) ==
    IF s # <<>> /\ s[Len(s)] = " " THEN RStrip(SubSeq(s, 1, Len(s) - 1)) ELSE s
Strip(s) == RStrip(LStrip(s))

\* All sequences over S of length 0..n
RECURSIVE SeqsUpTo(_, _)
SeqsUpTo(S, n) ==
    IF n = 0 THEN { <<>> }
    ELSE LET shorter == SeqsUpTo(S, n - 1)
         IN  shorter \cup { Append(s, x) : s \in shorter, x \in S }

-----------------------------------------------------------------------------
(* fnmatch.fnmatch(name, pat), as called at lines 49 and 52.  A "*" matches *)
(* any run of characters ("/" included), "?" any one character, "[seq]"    *)
(* and "[!seq]" one character in / not in seq, a "[" with no closing "]"   *)
(* is literal, and every other character (a backslash too) is literal.     *)
(* The modelled patterns hold no "-", so a bracket expression is a plain   *)
(* set of characters.                                                      *)

\* Index of the "]" closing the bracket expression opened at pat[1], or 0.
ClassEnd(pat) ==
    LET n  == Len(pat)
        j1 == IF 2 <= n /\ pat[2] = "!" THEN 3 ELSE 2
        j2 == IF j1 <= n /\ pat[j1] = "]" THEN j1 + 1 ELSE j1
        closing == { k \in j2..n : pat[k] = "]" }
    IN  IF closing = {} THEN 0
        ELSE CHOOSE k \in closing : \A k2 \in closing : k <= k2

ClassHas(stuff, c) ==
    IF stuff[1] = "!" THEN c \notin Range(Tail(stuff)) ELSE c \in Range(stuff)

RECURSIVE fnmatch(_, _)
fnmatch(name, pat) ==
    IF pat = <<>> THEN name = <<>>
    ELSE IF pat[1] = "*"
         THEN \/ fnmatch(name, Tail(pat))
              \/ name # <<>> /\ fnmatch(Tail(name), pat)
    ELSE IF pat[1] = "?"
         THEN name # <<>> /\ fnmatch(Tail(name), Tail(pat))
    ELSE IF pat[1] = "[" /\ ClassEnd(pat) # 0
         THEN LET j == ClassEnd(pat)
              IN  /\ name # <<>>
                  /\ ClassHas(SubSeq(pat, 2, j - 1), name[1])
                  /\ fnmatch(Tail(name), SubSeq(pat, j + 1, Len(pat)))
    ELSE name # <<>> /\ name[1] = pat[1] /\ fnmatch(Tail(name), Tail(pat))

-----------------------------------------------------------------------------
(* is_ignored *)

\* os.path.relpath(path, project_dir): a path is the sequence of the names
\* from the project root down; the root itself is ".".
RECURSIVE JoinPath(_)
JoinPath(path) ==
    IF Len(path) = 1 THEN path[1]
    ELSE path[1] \o <<"/">> \o JoinPath(Tail(path))
relpath(path) == IF path = <<>> THEN <<".">> ELSE JoinPath(path)

\* line 30 and line 40
NormalizeSlashes(s) == Replace(s, <<"\\">>, <<"/">>)

\* line 44, with the one-occurrence variant before it
StripGlobstarOnce(pat) == ReplaceFirst(pat, <<"*", "*", "/">>, <<>>)
StripGlobstar(pat) == Replace(pat, <<"*", "*", "/">>, <<>>)

\* lines 40-47: what the loop makes of one pattern before matching
RewritePattern(pat) ==
    LET p1 == NormalizeSlashes(pat)
    IN  IF Contains(p1, <<"*", "*">>)
        THEN LET p2 == StripGlobstar(p1)
                 p3 == IF StartsWith(p2, <<"/">>) THEN Tail(p2) ELSE p2
             IN  <<"*">> \o p3 \o <<"*">>
        ELSE p1

\* lines 49-53: the two fnmatch calls, each with its variant before it
MatchesPatternBareOnly(relative_path, pat) == fnmatch(relative_path, pat)
MatchesPattern(relative_path, pat) ==
    \/ fnmatch(relative_path, pat)
    \/ fnmatch(<<"/">> \o relative_path, pat)

\* lines 33-37, with a variant that adds the built-in list on one side only
PatternsToCheckMisplaced(git, sum, str, add, check_structure) ==
    git \o (IF check_structure THEN add \o str ELSE sum)
PatternsToCheck(git, sum, str, add, check_structure) ==
    (git \o add) \o (IF check_structure THEN str ELSE sum)

\* lines 39-55: the loop, first match returns True
RECURSIVE AnyPatternMatches(_, _)
AnyPatternMatches(relative_path, pats) ==
    IF pats = <<>> THEN FALSE
    ELSE \/ MatchesPattern(relative_path, RewritePattern(pats[1]))
         \/ AnyPatternMatches(relative_path, Tail(pats))

is_ignored(path, git, sum, str, add, check_structure) ==
    AnyPatternMatches(NormalizeSlashes(relpath(path)),
                      PatternsToCheck(git, sum, str, add, check_structure))

-----------------------------------------------------------------------------
(* Names *)

N_gitignore == <<".", "g", "i", "t", "i", "g", "n", "o", "r", "e">>
N_summaryignore == <<".", "s", "u", "m", "m", "a", "r", "y", "i", "g", "n", "o", "r", "e">>
N_structureignore == <<".", "s", "u", "m", "m", "a", "r", "y", "s", "t", "r", "u", "c", "t", "u", "r", "e", "i", "g", "n", "o", "r", "e">>
N_generate_py == <<"g", "e", "n", "e", "r", "a", "t", "e", "_", "p", "r", "o", "j", "e", "c", "t", "_", "s", "u", "m", "m", "a", "r", "y", ".", "p", "y">>
N_dotgit == <<".", "g", "i", "t">>
N_node_modules == <<"n", "o", "d", "e", "_", "m", "o", "d", "u", "l", "e", "s">>
N_dist == <<"d", "i", "s", "t">>
SummarySuffix == <<"_", "p", "r", "o", "j", "e", "c", "t", "_", "s", "u", "m", "m", "a", "r", "y", ".", "m", "d">>
CopySuffix == <<"_", "p", "r", "o", "j", "e", "c", "t", "_", "s", "u", "m", "m", "a", "r", "y", " ", "c", "o", "p", "y", ".", "m", "d">>
N_c_txt == <<"c", ".", "t", "x", "t">>

\* line 64
AdditionalIgnorePatterns(name) ==
    << N_generate_py, N_summaryignore, N_structureignore,
       name \o SummarySuffix, name \o CopySuffix, N_dotgit >>

\* line 74
EarlyExcluded == { N_node_modules, N_dotgit, N_dist }

\* line 119: the output file, as a path below the project root
OutputPath(name) == << name \o SummarySuffix >>

-----------------------------------------------------------------------------
(* The ignore files: lines 123-166.  A file that exists is the sequence of  *)
(* its lines (without the newline); NoFile is os.path.exists being false.   *)

NoFile == [ exists |-> FALSE, lines |-> <<>> ]
IgnoreFile(lines) == [ exists |-> TRUE, lines |-> lines ]

\* lines 128-135: a pattern, then its separator-swapped variants
ExpandPattern(pat) ==
    <<pat>>
    \o (IF "/" \in Range(pat) THEN << Replace(pat, <<"/">>, <<"\\">>) >> ELSE <<>>)
    \o (IF "\\" \in Range(pat) THEN << Replace(pat, <<"\\">>, <<"/">>) >> ELSE <<>>)

\* lines 127-135 on the lines of an existing file
RECURSIVE ExpandedPatterns(_)
ExpandedPatterns(lines) ==
    IF lines = <<>> THEN <<>>
    ELSE LET line == lines[1]
         IN  (IF Strip(line) # <<>> /\ ~StartsWith(line, <<"#">>)
              THEN ExpandPattern(Strip(line)) ELSE <<>>)
             \o ExpandedPatterns(Tail(lines))

ReadIgnoreFile(file) == IF file.exists THEN ExpandedPatterns(file.lines) ELSE <<>>

read_gitignore(files) == ReadIgnoreFile(files.git)
read_summaryignore(files) == ReadIgnoreFile(files.sum)
read_structureignore(files) == ReadIgnoreFile(files.str)

-----------------------------------------------------------------------------
(* The file system below the project root.  An entry of tree is            *)
(* [path, isdir, kind]; kind says what reading the file gives:             *)
(*   "text"        UTF-8 text that is not blank                            *)
(*   "legacy"      not blank, decodable as shift_jis but not as UTF-8/16   *)
(*   "blank"       only whitespace (or empty)                              *)
(*   "binary"      a null byte in the first 1024 bytes                     *)
(*   "unreadable"  open() raises OSError (no permission, dangling link)    *)

Root == <<>>
Parent(path) == SubSeq(path, 1, Len(path) - 1)
IsUnder(path, dir) == Len(dir) <= Len(path) /\ SubSeq(path, 1, Len(dir)) = dir

IgnoreFileNames(files) ==
    (IF files.git.exists THEN { N_gitignore } ELSE {})
    \cup (IF files.sum.exists THEN { N_summaryignore } ELSE {})
    \cup (IF files.str.exists THEN { N_structureignore } ELSE {})

IgnoreFileLines(files, name) ==
    IF name = N_gitignore THEN files.git.lines
    ELSE IF name = N_summaryignore THEN files.sum.lines ELSE files.str.lines

\* os.listdir(root): the names in a directory, in no particular order
listdir(fs, files, dir) ==
    { e.path[Len(e.path)] : e \in { x \in fs : x.path # Root /\ Parent(x.path) = dir } }
    \cup (IF dir = Root THEN IgnoreFileNames(files) ELSE {})

\* os.path.isdir(item_path)
isdir(fs, path) == \E e \in fs : e.path = path /\ e.isdir

KindOf(fs, files, path) ==
    IF Len(path) = 1 /\ path[1] \in IgnoreFileNames(files)
    THEN IF \E i \in 1..Len(IgnoreFileLines(files, path[1])) :
               Strip(IgnoreFileLines(files, path[1])[i]) # <<>>
         THEN "text" ELSE "blank"
    ELSE (CHOOSE e \in fs : e.path = path).kind

\* lines 4-6 (the open() that raises is the guard of the actions below)
is_binary_never(kind) == FALSE
is_binary(kind) == kind = "binary"

\* lines 10-17: the encodings tried in order; latin-1 decodes any bytes
Encodings == << "utf-8", "utf-16", "shift_jis", "latin-1", "iso-8859-1" >>
Decodes(kind, encoding) ==
    \/ encoding \in { "latin-1", "iso-8859-1" }
    \/ kind \in { "text", "blank" } /\ encoding = "utf-8"
    \/ kind = "legacy" /\ encoding = "shift_jis"

\* lines 8-26 for a file that can be opened: the decoded text, as
\* [blank |-> whether content.strip() is empty, encoding |-> the one that worked]
RECURSIVE TryEncodings(_, _)
TryEncodings(kind, encodings) ==
    IF encodings = <<>>
    THEN [blank |-> kind = "blank", encoding |-> "utf-8-replace"]
    ELSE IF Decodes(kind, encodings[1])
         THEN [blank |-> kind = "blank", encoding |-> encodings[1]]
         ELSE TryEncodings(kind, Tail(encodings))
read_file_contents(kind) == TryEncodings(kind, Encodings)

\* sorted(): ascending by code point, character by character
RECURSIVE LexLess(_, _)
LexLess(a, b) ==
    IF a = <<>> THEN b # <<>>
    ELSE IF b = <<>> THEN FALSE
    ELSE IF a[1] = b[1] THEN LexLess(Tail(a), Tail(b))
    ELSE Ord(a[1]) < Ord(b[1])

RECURSIVE sorted_descending(_)
sorted_descending(names) ==
    IF names = {} THEN <<>>
    ELSE LET m == CHOOSE x \in names : \A y \in names \ {x} : LexLess(y, x)
         IN  <<m>> \o sorted_descending(names \ {m})

RECURSIVE sorted(_)
sorted(names) ==
    IF names = {} THEN <<>>
    ELSE LET m == CHOOSE x \in names : \A y \in names \ {x} : LexLess(x, y)
         IN  <<m>> \o sorted(names \ {m})

-----------------------------------------------------------------------------
(* generate_project_summary, one action per step of the traversal *)

MaxRuns == 2          \* how many times in a row the script is run

Top == stack[Len(stack)]
Pop == SubSeq(stack, 1, Len(stack) - 1)

\* os.path.basename(root): the root's own name is the project's
Basename(path) == IF path = Root THEN project_name ELSE path[Len(path)]

\* a call traverse_directory(root, level, include_contents) about to run
Call(path, level, include_contents) ==
    [ path |-> path, level |-> level, include_contents |-> include_contents,
      phase |-> "enter", dirs |-> <<>>, files |-> <<>> ]

\* line 78, with the content-variant call before it
DirectoryIgnoredAsContent(path) ==
    is_ignored(path, gitignore_patterns, summaryignore_patterns,
               structureignore_patterns, additional_ignore_patterns, FALSE)
DirectoryIgnored(path) ==
    is_ignored(path, gitignore_patterns, summaryignore_patterns,
               structureignore_patterns, additional_ignore_patterns, TRUE)

\* line 106
FileStructureIgnored(path) ==
    is_ignored(path, gitignore_patterns, summaryignore_patterns,
               structureignore_patterns, additional_ignore_patterns, TRUE)

\* line 111
FileContentIgnored(path) ==
    is_ignored(path, gitignore_patterns, summaryignore_patterns,
               structureignore_patterns, additional_ignore_patterns, FALSE)

\* A line of the structure section (lines 81 and 107): the indent level and
\* the name make the text; path is the entry the line was written for.
Line(level, path, dir) ==
    [ level |-> level, name |-> Basename(path), isdir |-> dir, path |-> path ]

\* An entry of the contents section (lines 112-115)
Entry(path, content) ==
    [ heading |-> relpath(path), encoding |-> content.encoding, path |-> path ]

other_vars == << match_vars, rewrite_vars, icon >>

\* lines 57-66 and the call of line 117
ReadIgnoreFiles ==
    /\ pc = "start"
    /\ gitignore_patterns' = read_gitignore(ignore_files)
    /\ summaryignore_patterns' = read_summaryignore(ignore_files)
    /\ structureignore_patterns' = read_structureignore(ignore_files)
    /\ additional_ignore_patterns' = AdditionalIgnorePatterns(project_name)
    /\ summary' = <<>>
    /\ file_contents_section' = <<>>
    /\ stack' = << Call(Root, 0, TRUE) >>
    /\ pc' = "walk"
    /\ UNCHANGED << project_name, tree, ignore_files, outputs, other_vars >>

\* lines 74-75
PruneEarly ==
    /\ pc = "walk" /\ stack # <<>> /\ Top.phase = "enter"
    /\ Basename(Top.path) \in EarlyExcluded
    /\ stack' = Pop
    /\ UNCHANGED << project_name, tree, ignore_files, pattern_vars, summary,
                    file_contents_section, pc, outputs, other_vars >>

\* lines 78-79
PruneIgnored ==
    /\ pc = "walk" /\ stack # <<>> /\ Top.phase = "enter"
    /\ Basename(Top.path) \notin EarlyExcluded
    /\ DirectoryIgnored(Top.path)
    /\ stack' = Pop
    /\ UNCHANGED << project_name, tree, ignore_files, pattern_vars, summary,
                    file_contents_section, pc, outputs, other_vars >>

\* lines 81-94
ListDirectory ==
    /\ pc = "walk" /\ stack # <<>> /\ Top.phase = "enter"
    /\ Basename(Top.path) \notin EarlyExcluded
    /\ ~DirectoryIgnored(Top.path)
    /\ summary' = Append(summary, Line(Top.level, Top.path, TRUE))
    /\ LET items == listdir(tree, ignore_files, Top.path)
           dirs  == { item \in items : isdir(tree, Top.path \o <<item>>) }
       IN  stack' = Append(Pop, [ Top EXCEPT !.phase = "loop",
                                             !.dirs = sorted(dirs),
                                             !.files = sorted(items \ dirs) ])
    /\ UNCHANGED << project_name, tree, ignore_files, pattern_vars,
                    file_contents_section, pc, outputs, other_vars >>

\* lines 97-99: the next subdirectory is traversed
Recurse ==
    /\ pc = "walk" /\ stack # <<>> /\ Top.phase = "loop"
    /\ Top.dirs # <<>>
    /\ stack' = Append(Append(Pop, [ Top EXCEPT !.dirs = Tail(Top.dirs) ]),
                       Call(Top.path \o << Head(Top.dirs) >>, Top.level + 1,
                            Top.include_contents))
    /\ UNCHANGED << project_name, tree, ignore_files, pattern_vars, summary,
                    file_contents_section, pc, outputs, other_vars >>

\* lines 102-115 for the next file, when open() succeeds
ProcessFile ==
    /\ pc = "walk" /\ stack # <<>> /\ Top.phase = "loop"
    /\ Top.dirs = <<>> /\ Top.files # <<>>
    /\ LET item_path == Top.path \o << Head(Top.files) >>
           kind      == KindOf(tree, ignore_files, item_path)
           content   == read_file_contents(kind)
       IN  /\ ~(Top.include_contents /\ kind = "unreadable")
           /\ summary' = IF ~FileStructureIgnored(item_path)
                         THEN Append(summary, Line(Top.level + 1, item_path, FALSE))
                         ELSE summary
           /\ file_contents_section' =
                 IF /\ Top.include_contents /\ ~is_binary(kind)
                    /\ ~FileContentIgnored(item_path)
                    /\ ~content.blank
                 THEN Append(file_contents_section, Entry(item_path, content))
                 ELSE file_contents_section
    /\ stack' = Append(Pop, [ Top EXCEPT !.files = Tail(Top.files) ])
    /\ UNCHANGED << project_name, tree, ignore_files, pattern_vars, pc,
                    outputs, other_vars >>

\* lines 102-110 for the next file, when the open() of is_binary (line 5)
\* raises: nothing up to the caller of generate_project_summary catches it
ReadRaises ==
    /\ pc = "walk" /\ stack # <<>> /\ Top.phase = "loop"
    /\ Top.dirs = <<>> /\ Top.files # <<>>
    /\ LET item_path == Top.path \o << Head(Top.files) >>
           kind      == KindOf(tree, ignore_files, item_path)
       IN  /\ Top.include_contents /\ kind = "unreadable"
           /\ summary' = IF ~FileStructureIgnored(item_path)
                         THEN Append(summary, Line(Top.level + 1, item_path, FALSE))
                         ELSE summary
    /\ stack' = <<>>
    /\ pc' = "raised"
    /\ UNCHANGED << project_name, tree, ignore_files, pattern_vars,
                    file_contents_section, outputs, other_vars >>

\* the end of a traverse_directory call
Return ==
    /\ pc = "walk" /\ stack # <<>> /\ Top.phase = "loop"
    /\ Top.dirs = <<>> /\ Top.files = <<>>
    /\ stack' = Pop
    /\ UNCHANGED << project_name, tree, ignore_files, pattern_vars, summary,
                    file_contents_section, pc, outputs, other_vars >>

\* lines 119-121: the document is written into the project root
WriteOutput ==
    /\ pc = "walk" /\ stack = <<>>
    /\ outputs' = Append(outputs, [ title |-> project_name,
                                    structure |-> summary,
                                    contents |-> file_contents_section ])
    /\ tree' = { e \in tree : e.path # OutputPath(project_name) }
               \cup { [ path |-> OutputPath(project_name), isdir |-> FALSE,
                        kind |-> "text" ] }
    /\ pc' = "done"
    /\ UNCHANGED << project_name, ignore_files, pattern_vars, summary,
                    file_contents_section, stack, other_vars >>

\* lines 168-172: the script is started again on the same directory
RunAgain ==
    /\ pc = "done"
    /\ Len(outputs) < MaxRuns
    /\ pc' = "start"
    /\ UNCHANGED << project_name, tree, ignore_files, pattern_vars, summary,
                    file_contents_section, stack, outputs, other_vars >>

-----------------------------------------------------------------------------
(* The projects the summarizer is run on *)

Dir(path) == [ path |-> path, isdir |-> TRUE, kind |-> "dir" ]
File(path, kind) == [ path |-> path, isdir |-> FALSE, kind |-> kind ]

P_a == << <<"a">> >>
P_ab == << <<"a">>, <<"b">> >>
P_abc == << <<"a">>, <<"b">>, N_c_txt >>
P_ad == << <<"a">>, <<"d">> >>
P_aZ == << <<"a">>, <<"Z">> >>
P_ae == << <<"a">>, <<"e">> >>
P_dist == << N_dist >>
P_distf == << N_dist, <<"f">> >>
P_z == << <<"z">> >>

FilePaths == { P_abc, P_aZ, P_ae, P_distf, P_z }
OddKinds == { "legacy", "blank", "binary", "unreadable" }

\* a/b/c.txt, a/d/, a/Z, a/e, dist/f, z: every file is plain text
PlainTree ==
    { Dir(Root), Dir(P_a), Dir(P_ab), Dir(P_ad), Dir(P_dist) }
    \cup { File(p, "text") : p \in FilePaths }

WithKind(fs, path, kind) ==
    { IF e.path = path THEN File(path, kind) ELSE e : e \in fs }

Trees == { PlainTree }
         \cup { WithKind(PlainTree, p, k) : p \in FilePaths, k \in OddKinds }

ProjectNames == { <<"p">>, <<"p", "[", "1", "]">> }

GitignoreFiles ==
    { NoFile,
      IgnoreFile(<< <<"a", "/", "b", "/">> >>),
      IgnoreFile(<< <<"a", "/", "b">> >>),
      IgnoreFile(<< <<"*", ".", "t", "x", "t">> >>),
      IgnoreFile(<< <<"/", "a">> >>),
      IgnoreFile(<< <<"*", "*", "/", "b">> >>),
      IgnoreFile(<< <<"#", " ", "x">>, <<>>, <<" ", "Z", " ">> >>),
      IgnoreFile(<< <<"*">> >>) }

SummaryignoreFiles ==
    { NoFile,
      IgnoreFile(<< <<"#", " ", "x">> >>),
      IgnoreFile(<< <<"e">> >>),
      IgnoreFile(<< <<"a", "/", "*">> >>) }

StructureignoreFiles ==
    { NoFile, IgnoreFile(<< <<"a">> >>), IgnoreFile(<< <<"z">> >>) }

\* any .gitignore alone, and every pair of the other two files with or
\* without a .gitignore
IgnoreFileSets ==
    [ git : GitignoreFiles, sum : { NoFile }, str : { NoFile } ]
    \cup [ git : { NoFile, IgnoreFile(<< <<"a", "/", "b">> >>) },
           sum : SummaryignoreFiles, str : StructureignoreFiles ]

SummarizerIdle ==
    /\ project_name = <<>> /\ tree = {}
    /\ ignore_files = [ git |-> NoFile, sum |-> NoFile, str |-> NoFile ]
    /\ summary = <<>> /\ file_contents_section = <<>> /\ stack = <<>>
    /\ pc = "idle" /\ outputs = <<>>
PatternsIdle ==
    /\ gitignore_patterns = <<>> /\ summaryignore_patterns = <<>>
    /\ structureignore_patterns = <<>> /\ additional_ignore_patterns = <<>>
\* m_result is <<>> before the call and holds the returned value after it
MatchIdle == m_path = <<>> /\ m_check_structure = FALSE /\ m_result = <<>>
\* rewritten is <<>> before the rewrite and holds the new pattern after it
RewriteIdle == pattern = <<>> /\ rewritten = <<>>
IconIdle == icon = "idle"

Init ==
    /\ project_name \in ProjectNames
    /\ tree \in Trees
    /\ ignore_files \in IgnoreFileSets
    /\ summary = <<>> /\ file_contents_section = <<>> /\ stack = <<>>
    /\ pc = "start" /\ outputs = <<>>
    /\ PatternsIdle /\ MatchIdle /\ RewriteIdle /\ IconIdle

Next ==
    \/ ReadIgnoreFiles
    \/ PruneEarly
    \/ PruneIgnored
    \/ ListDirectory
    \/ Recurse
    \/ ProcessFile
    \/ ReadRaises
    \/ Return
    \/ WriteOutput
    \/ RunAgain

Spec == Init /\ [][Next]_vars

-----------------------------------------------------------------------------
(* Properties of generate_project_summary, checked under Spec *)

HasLine(path) == \E i \in 1..Len(summary) : summary[i].path = path
HasFileLine(path) ==
    \E i \in 1..Len(summary) : summary[i].path = path /\ ~summary[i].isdir
HasEntry(path) ==
    \E i \in 1..Len(file_contents_section) : file_contents_section[i].path = path

\* The run is over: the document was written, or an exception ended the run.
\* Both sections only grow during a run, so what holds of them here holds of
\* every earlier stage of the run.
Finished == pc \in { "done", "raised" }

IgnoredFor(path, check_structure) ==
    is_ignored(path, gitignore_patterns, summaryignore_patterns,
               structureignore_patterns, additional_ignore_patterns,
               check_structure)

\* C1: a directory the structure-variant check matches has no line in the
\* structure section, nor has anything below it, and no file below it has an
\* entry in the contents section, whatever the nested paths match themselves.
C1_PrunedDirectoryContributesNothing ==
    Finished =>
        \A d \in tree :
            (d.isdir /\ IgnoredFor(d.path, TRUE)) =>
                /\ \A i \in 1..Len(summary) : ~IsUnder(summary[i].path, d.path)
                /\ \A i \in 1..Len(file_contents_section) :
                       ~IsUnder(file_contents_section[i].path, d.path)

\* a finished run that reached an ignored directory holding a readable text
\* file that no pattern of either rule set matches
C1_Witness ==
    /\ pc = "done"
    /\ \E d \in tree, f \in tree :
           /\ d.isdir /\ d.path # Root /\ IgnoredFor(d.path, TRUE)
           /\ HasLine(Parent(d.path))
           /\ ~f.isdir /\ f.kind = "text" /\ IsUnder(f.path, d.path)
           /\ ~IgnoredFor(f.path, TRUE) /\ ~IgnoredFor(f.path, FALSE)

\* C2: with a/b/c.txt a non-blank text file and a .gitignore whose only
\* pattern is "a/b/", the finished document has no line for b/ or c.txt and
\* no contents entry for c.txt.
C2_ScenarioOmitsIgnoredDirectory ==
    ( /\ pc = "done"
      /\ ignore_files.git = IgnoreFile(<< <<"a", "/", "b", "/">> >>)
      /\ File(P_abc, "text") \in tree )
    => /\ ~HasLine(P_ab)
       /\ ~HasLine(P_abc)
       /\ ~HasEntry(P_abc)

\* C3: a binary file never has an entry in the contents section, whatever
\* the patterns say; its line in the structure section is written as for any
\* other file of a listed directory.
C3_BinaryNeverInContents ==
    /\ \A i \in 1..Len(file_contents_section) :
           KindOf(tree, ignore_files, file_contents_section[i].path) # "binary"
    /\ pc = "done" =>
           \A f \in tree :
               ( /\ ~f.isdir /\ f.kind = "binary"
                 /\ HasLine(Parent(f.path))
                 /\ ~IgnoredFor(f.path, TRUE) )
               => HasFileLine(f.path)

\* a finished run that listed a binary file which the content variant does
\* not ignore
C3_Witness ==
    /\ pc = "done"
    /\ \E f \in tree :
           /\ ~f.isdir /\ f.kind = "binary"
           /\ HasFileLine(f.path)
           /\ ~IgnoredFor(f.path, FALSE)
           /\ ~HasEntry(f.path)

\* C4: when .summaryignore and .summarystructureignore give no patterns, the
\* two variants of the check agree on every path and every file with an entry
\* in the contents section has a line in the structure section.
C4_SharedPatternsContentsWithinStructure ==
    ( /\ Finished
      /\ summaryignore_patterns = <<>>
      /\ structureignore_patterns = <<>> )
    => /\ \A e \in tree : IgnoredFor(e.path, TRUE) = IgnoredFor(e.path, FALSE)
       /\ \A i \in 1..Len(file_contents_section) :
              HasFileLine(file_contents_section[i].path)

\* a finished run under the shared patterns only, with an entry written and
\* with a listed file that has no entry
C4_Witness ==
    /\ pc = "done"
    /\ summaryignore_patterns = <<>> /\ structureignore_patterns = <<>>
    /\ gitignore_patterns # <<>>
    /\ file_contents_section # <<>>
    /\ \E f \in tree : ~f.isdir /\ HasFileLine(f.path) /\ ~HasEntry(f.path)

\* C6: a file that cannot be opened is treated as empty and skipped; no read
\* failure leaves generate_project_summary, which goes on to write the
\* document.
C6_NoReadFailurePropagates == pc # "raised"

\* C9: a directory's line precedes every line of its subtree; the subtrees
\* of its subdirectories follow in ascending order of name, each complete
\* before the next; its own files follow them in ascending order of name; no
\* entry has two lines.
C9_StructureOrder ==
    Finished =>
    /\ \A i, j \in 1..Len(summary) :
           summary[i].path = summary[j].path => i = j
    /\ \A i \in 1..Len(summary) :
           summary[i].path # Root =>
               \E j \in 1..(i - 1) :
                   summary[j].isdir /\ summary[j].path = Parent(summary[i].path)
    /\ \A i, j \in 1..Len(summary) :
           ( /\ i # j
             /\ summary[i].path # Root /\ summary[j].path # Root
             /\ Parent(summary[i].path) = Parent(summary[j].path) )
           => /\ ( /\ summary[i].isdir = summary[j].isdir
                   /\ LexLess(summary[i].name, summary[j].name) ) => i < j
              /\ ( /\ summary[i].isdir
                   /\ \/ ~summary[j].isdir
                      \/ LexLess(summary[i].name, summary[j].name) )
                 => \A k \in 1..Len(summary) :
                        IsUnder(summary[k].path, summary[i].path) => k < j

\* a finished run that listed a/ with its subdirectories b/ (holding c.txt)
\* and d/ and its files Z and e
C9_Witness ==
    /\ pc = "done"
    /\ HasLine(P_ab) /\ HasLine(P_abc) /\ HasLine(P_ad)
    /\ HasLine(P_aZ) /\ HasLine(P_ae) /\ HasLine(P_z)

\* C10: the document the run wrote is excluded from both sections of the
\* next run, whatever the project directory is called, so the next run on the
\* unchanged tree writes the same document.
C10_SecondRunWritesSameDocument ==
    Len(outputs) >= 2 => outputs[2] = outputs[1]

-----------------------------------------------------------------------------
(* The "**" rewrite of lines 40-47 applied to one pattern *)

MaxRewriteLen == 7    \* longest pattern rewritten
RewriteAlphabet == { "*", "/", "a", "\\" }

InitRewrite ==
    /\ pattern \in SeqsUpTo(RewriteAlphabet, MaxRewriteLen)
    /\ rewritten = <<>>
    /\ SummarizerIdle /\ PatternsIdle /\ MatchIdle /\ IconIdle

RewriteCall ==
    /\ rewritten = <<>>
    /\ rewritten' = << RewritePattern(pattern) >>
    /\ UNCHANGED << summarizer_vars, pattern_vars, match_vars, pattern, icon >>

NextRewrite == RewriteCall

SpecRewrite == InitRewrite /\ [][NextRewrite]_vars

Globstar == <<"*", "*", "/">>

\* where "**/" occurs in p, and the positions those occurrences cover
Occurrences(p) == { i \in 1..(Len(p) - 2) : SubSeq(p, i, i + 2) = Globstar }
Covered(p) == { k \in 1..Len(p) : \E i \in Occurrences(p) : k \in i..(i + 2) }

\* p without the characters at the positions in gone
Without(p, gone) ==
    LET keep == (1..Len(p)) \ gone
    IN  [ j \in 1..Cardinality(keep) |->
            p[CHOOSE k \in keep : Cardinality({ m \in keep : m <= k }) = j] ]

DropLeadingSlash(p) == IF p # <<>> /\ p[1] = "/" THEN Tail(p) ELSE p

Wrapped(p) == <<"*">> \o p \o <<"*">>

\* C8 as stated: the rewrite of a pattern holding "**" deletes exactly one
\* occurrence of "**/" (the first), strips one leading "/" and wraps the rest
\* in "*", so later occurrences stay in the pattern.
C8_DeletesOneOccurrence ==
    LET p == NormalizeSlashes(pattern)
    IN  (rewritten # <<>> /\ Contains(p, <<"*", "*">>)) =>
            rewritten[1] = Wrapped(DropLeadingSlash(
                            IF Occurrences(p) = {} THEN p
                            ELSE LET first == CHOOSE i \in Occurrences(p) :
                                        \A i2 \in Occurrences(p) : i <= i2
                                 IN  Without(p, first..(first + 2))))

\* C8 as amended: the rewrite of a pattern holding "**" deletes every
\* occurrence of "**/", strips one leading "/" and wraps the rest in "*".
C8_DeletesEveryOccurrence ==
    LET p == NormalizeSlashes(pattern)
    IN  (rewritten # <<>> /\ Contains(p, <<"*", "*">>)) =>
            rewritten[1] = Wrapped(DropLeadingSlash(Without(p, Covered(p))))

\* a rewritten pattern that held "**/" twice, with a "/" left in front once
\* they are deleted
C8_Witness ==
    /\ rewritten # <<>>
    /\ Cardinality(Occurrences(NormalizeSlashes(pattern))) >= 2
    /\ StartsWith(Without(NormalizeSlashes(pattern),
                          Covered(NormalizeSlashes(pattern))), <<"/">>)

-----------------------------------------------------------------------------
(* is_ignored applied to one path under pattern lists read from ignore files *)

MaxPatLen == 3        \* longest line of the .gitignore read
MatchAlphabet == { "a", "b", "/", "*", "\\" }

MatchPaths ==
    { Root, << <<"a">> >>, << <<"b">> >>, << <<"a">>, <<"b">> >>,
      << <<"b">>, <<"a">> >>, << <<"a">>, <<"a">>, <<"b">> >>,
      << <<"a", "\\", "b">> >>, OutputPath(<<"p">>) }

InitMatch ==
    /\ \E g \in SeqsUpTo(MatchAlphabet, MaxPatLen),
          s \in { <<>>, <<"b">> },
          t \in { <<>>, <<"/", "a">> } :
           /\ gitignore_patterns = ReadIgnoreFile(IgnoreFile(<< g >>))
           /\ summaryignore_patterns = ReadIgnoreFile(IgnoreFile(<< s >>))
           /\ structureignore_patterns = ReadIgnoreFile(IgnoreFile(<< t >>))
    /\ additional_ignore_patterns = AdditionalIgnorePatterns(<<"p">>)
    /\ m_path \in MatchPaths
    /\ m_check_structure \in BOOLEAN
    /\ m_result = <<>>
    /\ SummarizerIdle /\ RewriteIdle /\ IconIdle

IsIgnoredCall ==
    /\ m_result = <<>>
    /\ m_result' = << is_ignored(m_path, gitignore_patterns,
                                 summaryignore_patterns,
                                 structureignore_patterns,
                                 additional_ignore_patterns,
                                 m_check_structure) >>
    /\ UNCHANGED << summarizer_vars, pattern_vars, m_path, m_check_structure,
                    rewrite_vars, icon >>

NextMatch == IsIgnoredCall

SpecMatch == InitMatch /\ [][NextMatch]_vars

\* the rule set the claim calls applicable
Applicable ==
    (gitignore_patterns \o additional_ignore_patterns)
    \o (IF m_check_structure THEN structureignore_patterns
        ELSE summaryignore_patterns)

NoGlobstarPattern ==
    \A i \in 1..Len(Applicable) : ~Contains(Applicable[i], <<"*", "*">>)

\* C5 as stated: without "**" in the rule set, the path is ignored exactly
\* when some pattern of the applicable rule set glob-matches the normalized
\* relative path.
C5_IgnoredIffPatternMatchesPath ==
    (m_result # <<>> /\ NoGlobstarPattern) =>
        m_result[1] = \E i \in 1..Len(Applicable) :
                       fnmatch(NormalizeSlashes(relpath(m_path)), Applicable[i])

\* C5 as amended: without "**" in the rule set, the path is ignored exactly
\* when some pattern of the applicable rule set, its backslashes turned into
\* "/", glob-matches the normalized relative path or that path with a "/"
\* put in front.
C5_IgnoredIffPatternMatchesPathOrSlashPath ==
    (m_result # <<>> /\ NoGlobstarPattern) =>
        m_result[1] = \E i \in 1..Len(Applicable) :
                       LET pat == NormalizeSlashes(Applicable[i])
                           rel == NormalizeSlashes(relpath(m_path))
                       IN  fnmatch(rel, pat) \/ fnmatch(<<"/">> \o rel, pat)

\* a path ignored under the structure variant only through the "/"-prefixed
\* match of a pattern of .summarystructureignore
C5_Witness ==
    /\ m_result = << TRUE >> /\ NoGlobstarPattern /\ m_check_structure
    /\ gitignore_patterns = <<>>
    /\ \A i \in 1..Len(Applicable) :
           ~fnmatch(NormalizeSlashes(relpath(m_path)),
                    NormalizeSlashes(Applicable[i]))

-----------------------------------------------------------------------------
(* create_app_icons (src/.dev/create_app_icons.py) *)

\* lines 7-21, in the order the dictionary is iterated
icon_sizes ==
    << <<"32x32.png", 32>>, <<"128x128.png", 128>>, <<"128x128@2x.png", 256>>,
       <<"Square30x30Logo.png", 30>>, <<"Square44x44Logo.png", 44>>,
       <<"Square71x71Logo.png", 71>>, <<"Square89x89Logo.png", 89>>,
       <<"Square107x107Logo.png", 107>>, <<"Square142x142Logo.png", 142>>,
       <<"Square150x150Logo.png", 150>>, <<"Square284x284Logo.png", 284>>,
       <<"Square310x310Logo.png", 310>>, <<"StoreLogo.png", 175>> >>

\* line 43 and line 70
icns_sizes == << 16, 32, 64, 128, 256, 512, 1024 >>
ico_sizes == << 16, 32, 48, 64, 128 >>

\* base_image.copy().resize((size, size), LANCZOS)
Resized(base, size) == [ width |-> size, height |-> size ]

\* the base images tried: none at the path, or a square image of this size
BaseImages ==
    { [ exists |-> FALSE, size |-> 0 ] }
    \cup { [ exists |-> TRUE, size |-> n ] : n \in { 16, 512, 1024 } }

\* icon.produced is the output directory: a set of <<file name, width>>.
\* icon.as_script says whether the module runs as __main__, the only place
\* that imports tempfile (line 88).
InitIcons ==
    /\ \E base \in BaseImages, as_script \in BOOLEAN :
           icon = [ pc |-> "open", base |-> base, as_script |-> as_script,
                    produced |-> {}, i |-> 1, icns_images |-> <<>>,
                    tmpdir |-> {}, packaging |-> "pending", printed |-> <<>> ]
    /\ SummarizerIdle /\ PatternsIdle /\ MatchIdle /\ RewriteIdle

icon_others == << summarizer_vars, pattern_vars, match_vars, rewrite_vars >>

\* lines 24-27
OpenBase ==
    /\ icon.pc = "open" /\ icon.base.exists
    /\ icon' = [ icon EXCEPT !.pc = "rasters", !.i = 1 ]
    /\ UNCHANGED icon_others

\* line 27: Image.open raises for a missing image, and nothing catches it
OpenBaseRaises ==
    /\ icon.pc = "open" /\ ~icon.base.exists
    /\ icon' = [ icon EXCEPT !.pc = "raised" ]
    /\ UNCHANGED icon_others

\* lines 30-40, one iteration
SaveRaster ==
    /\ icon.pc = "rasters"
    /\ LET filename == icon_sizes[icon.i][1]
           img      == Resized(icon.base, icon_sizes[icon.i][2])
       IN  icon' = [ icon EXCEPT
                       !.produced = { f \in @ : f[1] # filename }
                                    \cup { << filename, img.width >> },
                       !.printed = Append(@, << "Generated", filename >>),
                       !.i = IF icon.i = Len(icon_sizes) THEN 1 ELSE @ + 1,
                       !.pc = IF icon.i = Len(icon_sizes) THEN "icns" ELSE @ ]
    /\ UNCHANGED icon_others

\* lines 43-49
BuildIcnsImages ==
    /\ icon.pc = "icns"
    /\ icon' = [ icon EXCEPT
                   !.icns_images = [ k \in 1..Len(icns_sizes) |->
                                       Resized(icon.base, icns_sizes[k]) ],
                   !.pc = "tempdir" ]
    /\ UNCHANGED icon_others

\* line 52, tempfile imported
EnterTempDir ==
    /\ icon.pc = "tempdir" /\ icon.as_script
    /\ icon' = [ icon EXCEPT !.pc = "tempsave", !.i = 1 ]
    /\ UNCHANGED icon_others

\* line 52, called from another module: the name tempfile is not defined
TempfileNameError ==
    /\ icon.pc = "tempdir" /\ ~icon.as_script
    /\ icon' = [ icon EXCEPT !.pc = "raised" ]
    /\ UNCHANGED icon_others

\* lines 53-54, one iteration
SaveTemp ==
    /\ icon.pc = "tempsave"
    /\ icon' = [ icon EXCEPT
                   !.tmpdir = @ \cup { << "icon_png", icns_sizes[icon.i] >> },
                   !.i = IF icon.i = Len(icns_sizes) THEN 1 ELSE @ + 1,
                   !.pc = IF icon.i = Len(icns_sizes) THEN "iconutil" ELSE @ ]
    /\ UNCHANGED icon_others

\* lines 58-65: iconutil runs and exits 0; the temporary directory goes
PackagingSucceeds ==
    /\ icon.pc = "iconutil"
    /\ icon' = [ icon EXCEPT
                   !.produced = { f \in @ : f[1] # "icon.icns" }
                                \cup { << "icon.icns", 1024 >> },
                   !.printed = Append(@, << "Generated", "icon.icns" >>),
                   !.packaging = "ok", !.tmpdir = {}, !.pc = "ico" ]
    /\ UNCHANGED icon_others

\* lines 58-64 with no except clause: the exception leaves the function
PackagingFailsUncaught ==
    /\ icon.pc = "iconutil"
    /\ \E why \in { "missing", "nonzero" } :
           icon' = [ icon EXCEPT !.packaging = why, !.tmpdir = {},
                                 !.pc = "raised" ]
    /\ UNCHANGED icon_others

\* lines 58-67: iconutil is not installed (FileNotFoundError) or exits
\* non-zero (CalledProcessError); the except clause prints and goes on
PackagingFails ==
    /\ icon.pc = "iconutil"
    /\ \E why \in { "missing", "nonzero" } :
           icon' = [ icon EXCEPT
                       !.printed = Append(@, << "Could not generate", why >>),
                       !.packaging = why, !.tmpdir = {}, !.pc = "ico" ]
    /\ UNCHANGED icon_others

\* lines 70-84
SaveIco ==
    /\ icon.pc = "ico"
    /\ LET ico_images == [ k \in 1..Len(ico_sizes) |->
                             Resized(icon.base, ico_sizes[k]) ]
       IN  icon' = [ icon EXCEPT
                       !.produced = { f \in @ : f[1] # "icon.ico" }
                                    \cup { << "icon.ico", ico_images[1].width >> },
                       !.printed = Append(@, << "Generated", "icon.ico" >>),
                       !.pc = "done" ]
    /\ UNCHANGED icon_others

NextIcons ==
    \/ OpenBase
    \/ OpenBaseRaises
    \/ SaveRaster
    \/ BuildIcnsImages
    \/ EnterTempDir
    \/ TempfileNameError
    \/ SaveTemp
    \/ PackagingSucceeds
    \/ PackagingFails
    \/ SaveIco

SpecIcons == InitIcons /\ [][NextIcons]_vars

RasterFiles == { << icon_sizes[k][1], icon_sizes[k][2] >> : k \in 1..Len(icon_sizes) }

\* C7: once the packaging step has failed, the failure is printed and not
\* raised: the thirteen raster files stay as written, the run is never ended
\* by an exception, it can always take its next step until it is done, and
\* when it is done icon.ico is written.
C7_PackagingFailureNotPropagated ==
    icon.packaging \in { "missing", "nonzero" } =>
        /\ icon.pc # "raised"
        /\ RasterFiles \subseteq icon.produced
        /\ Cardinality(RasterFiles) = 13
        /\ \E k \in 1..Len(icon.printed) : icon.printed[k][1] = "Could not generate"
        /\ icon.pc # "done" => ENABLED NextIcons
        /\ icon.pc = "done" => << "icon.ico", 16 >> \in icon.produced

\* a finished run whose packaging tool was missing
C7_Witness ==
    /\ icon.pc = "done"
    /\ icon.packaging = "missing"
    /\ << "icon.ico", 16 >> \in icon.produced

====
